---------------------------- MODULE Spec2Model ----------------------------
(***************************************************************************)
(* The reference-counted parse tree of src/runtime/tree.c as a state       *)
(* machine over a heap of TSTree records.                                  *)
(*                                                                         *)
(* A TSTree pointer is the index of its record in `heap`; malloc hands out *)
(* the next index.  free() removes the index from `live` and leaves the    *)
(* bytes of the record where they are.  `handles` counts, per node, the    *)
(* references held by the callers of the library (the creator's reference  *)
(* and those added with ts_tree_retain): a caller releases only a          *)
(* reference it holds.  `fault` records a release or free of memory that   *)
(* was already freed, or a write past the end of the visible-child array;  *)
(* once it is set the behaviour of the program is undefined and the model  *)
(* stops.  `ret` is the value returned by the most recent ts_tree_equals   *)
(* or ts_tree_string call; every other call clears it.                     *)
(***************************************************************************)
EXTENDS Integers, Sequences, FiniteSets, TLC

VARIABLES heap, live, handles, fault, ret

vars == <<heap, live, handles, fault, ret>>

(***************************************************************************)
(* Bounds of the model.                                                    *)
(***************************************************************************)
MaxNodes == 4

MaxChildren == 2

MaxSize == 2

MaxPadding == 1

MaxHandles == 2

(***************************************************************************)
(* Declarations of runtime/tree.h and tree_sitter/parser.h.                *)
(***************************************************************************)
ts_builtin_sym_error == 0

TSTreeOptionsHidden == "Hidden"

TSTreeOptionsWrapper == "Wrapper"

ts_tree_is_visible(tree) == TSTreeOptionsHidden \notin tree.options

ts_tree_is_wrapper(tree) == TSTreeOptionsWrapper \in tree.options

(***************************************************************************)
(* Inputs.                                                                 *)
(***************************************************************************)
Sizes == 0..MaxSize

Paddings == 0..MaxPadding

Symbols == {1, 2}

\* The lookahead characters: the end of the input and the letter x.
EndOfInput == 0

Lookaheads == {EndOfInput, 120}

NULL == 0

\* The symbol_names table handed to ts_tree_string.
symbol_names == (1 :> <<"a">>) @@ (2 :> <<"b">>)

NoRet == [op |-> "none"]

\* The child arrays a caller can pass: up to MaxChildren pointers to live nodes.
ChildArrays == UNION {[1..n -> live] : n \in 0..MaxChildren}

\* A slot of the visible-child array that no store has reached.
Uninit == [tree |-> 0, offset |-> 0]

Nodes == 1..Len(heap)

(***************************************************************************)
(* ts_tree_make_leaf, ts_tree_make_error                                   *)
(***************************************************************************)
ts_tree_make_leaf(sym, size, padding, is_hidden) ==
  [ref_count |-> 1,
   symbol |-> sym,
   size |-> size,
   child_count |-> 0,
   children |-> <<>>,
   lookahead_char |-> 0,
   padding |-> padding,
   visible_child_count |-> 0,
   visible_children |-> <<>>,
   options |-> IF is_hidden THEN {TSTreeOptionsHidden} ELSE {}]

ts_tree_make_error(size, padding, lookahead_char) ==
  [ts_tree_make_leaf(ts_builtin_sym_error, size, padding, FALSE)
     EXCEPT !.lookahead_char = lookahead_char]

(***************************************************************************)
(* ts_tree_retain                                                          *)
(***************************************************************************)
\* Mutant: the count is left as it is.
ts_tree_retain_forgotten(h, tree) == h

ts_tree_retain(h, tree) == [h EXCEPT ![tree].ref_count = @ + 1]

(***************************************************************************)
(* ts_tree_total_size                                                      *)
(***************************************************************************)
ts_tree_total_size(tree) == tree.padding + tree.size

(***************************************************************************)
(* ts_tree_make_node, first loop: retain every child and determine the     *)
(* size, padding and visible child count.  `acc` carries the heap and the  *)
(* three locals; i is the 1-based loop index.                              *)
(***************************************************************************)
RECURSIVE make_node_measure(_, _, _)

\* Mutant: a child is retained at its first slot only.
make_node_measure_retain_once(acc, children, i) ==
  IF i > Len(children) THEN acc
  ELSE LET h == IF \E j \in 1..(i - 1) : children[j] = children[i]
                THEN acc.heap
                ELSE [acc.heap EXCEPT ![children[i]].ref_count = @ + 1]
           child == h[children[i]]
       IN make_node_measure(
            [heap |-> h,
             padding |-> IF i = 1 THEN child.padding ELSE acc.padding,
             size |-> IF i = 1 THEN child.size
                      ELSE acc.size + child.padding + child.size,
             visible_child_count |->
               IF ts_tree_is_visible(child)
               THEN acc.visible_child_count + 1
               ELSE acc.visible_child_count + child.visible_child_count],
            children, i + 1)

\* Mutant: the padding between the children is left out of the size.
make_node_measure_size_only(acc, children, i) ==
  IF i > Len(children) THEN acc
  ELSE LET h == ts_tree_retain(acc.heap, children[i])
           child == h[children[i]]
       IN make_node_measure(
            [heap |-> h,
             padding |-> IF i = 1 THEN child.padding ELSE acc.padding,
             size |-> IF i = 1 THEN child.size ELSE acc.size + child.size,
             visible_child_count |->
               IF ts_tree_is_visible(child)
               THEN acc.visible_child_count + 1
               ELSE acc.visible_child_count + child.visible_child_count],
            children, i + 1)

make_node_measure(acc, children, i) ==
  IF i > Len(children) THEN acc
  ELSE LET h == ts_tree_retain(acc.heap, children[i])
           child == h[children[i]]
       IN make_node_measure(
            [heap |-> h,
             padding |-> IF i = 1 THEN child.padding ELSE acc.padding,
             size |-> IF i = 1 THEN child.size
                      ELSE acc.size + child.padding + child.size,
             visible_child_count |->
               IF ts_tree_is_visible(child)
               THEN acc.visible_child_count + 1
               ELSE acc.visible_child_count + child.visible_child_count],
            children, i + 1)

(***************************************************************************)
(* ts_tree_make_node, options: a node over a single visible or wrapper     *)
(* child is a hidden wrapper.                                              *)
(***************************************************************************)
\* Mutant: the single-child rule is missing.
make_node_options_flag_only(h, children, is_hidden) ==
  IF is_hidden THEN {TSTreeOptionsHidden} ELSE {}

make_node_options(h, children, is_hidden) ==
  (IF is_hidden THEN {TSTreeOptionsHidden} ELSE {})
  \cup
  (IF Len(children) = 1 /\ (ts_tree_is_visible(h[children[1]])
                            \/ ts_tree_is_wrapper(h[children[1]]))
   THEN {TSTreeOptionsWrapper, TSTreeOptionsHidden} ELSE {})

(***************************************************************************)
(* ts_tree_make_node, second loop.  A store into visible_children[vis_i];  *)
(* the array has the length it was allocated with, and a store outside it  *)
(* is recorded in `overflow`.                                              *)
(***************************************************************************)
store_visible_child(st, tree, offset) ==
  IF st.vis_i + 1 \in DOMAIN st.visible_children
  THEN [st EXCEPT !.visible_children[st.vis_i + 1] =
                     [tree |-> tree, offset |-> offset],
                  !.vis_i = @ + 1]
  ELSE [st EXCEPT !.overflow = TRUE, !.vis_i = @ + 1]

RECURSIVE copy_grandchildren(_, _, _, _)

\* Mutant: the grandchildren keep the offsets they have in the hidden child.
copy_grandchildren_unshifted(st, grandchildren, n, j) ==
  IF j > n THEN st
  ELSE copy_grandchildren(
         store_visible_child(st, grandchildren[j].tree, grandchildren[j].offset),
         grandchildren, n, j + 1)

copy_grandchildren(st, grandchildren, n, j) ==
  IF j > n THEN st
  ELSE copy_grandchildren(
         store_visible_child(st, grandchildren[j].tree,
                             st.offset + grandchildren[j].offset),
         grandchildren, n, j + 1)

RECURSIVE make_node_fill(_, _, _, _)

\* Mutant: the offset does not advance past a child's size.
make_node_fill_size_skipped(st, h, children, i) ==
  IF i > Len(children) THEN st
  ELSE LET child == h[children[i]]
           st1 == IF i > 1 THEN [st EXCEPT !.offset = @ + child.padding] ELSE st
           st2 == IF ts_tree_is_visible(child)
                  THEN store_visible_child(st1, children[i], st1.offset)
                  ELSE copy_grandchildren(st1, child.visible_children,
                                          child.visible_child_count, 1)
       IN make_node_fill(st2, h, children, i + 1)

\* Mutant: the offset does not advance past a child's padding.
make_node_fill_padding_skipped(st, h, children, i) ==
  IF i > Len(children) THEN st
  ELSE LET child == h[children[i]]
           st2 == IF ts_tree_is_visible(child)
                  THEN store_visible_child(st, children[i], st.offset)
                  ELSE copy_grandchildren(st, child.visible_children,
                                          child.visible_child_count, 1)
       IN make_node_fill([st2 EXCEPT !.offset = @ + child.size],
                         h, children, i + 1)

make_node_fill(st, h, children, i) ==
  IF i > Len(children) THEN st
  ELSE LET child == h[children[i]]
           st1 == IF i > 1 THEN [st EXCEPT !.offset = @ + child.padding] ELSE st
           st2 == IF ts_tree_is_visible(child)
                  THEN store_visible_child(st1, children[i], st1.offset)
                  ELSE copy_grandchildren(st1, child.visible_children,
                                          child.visible_child_count, 1)
       IN make_node_fill([st2 EXCEPT !.offset = @ + child.size],
                         h, children, i + 1)

(***************************************************************************)
(* ts_tree_make_node: the heap after the call (the new node is the last    *)
(* record) and whether a store left the visible-child array.               *)
(***************************************************************************)
ts_tree_make_node(h, symbol, children, is_hidden) ==
  LET m == make_node_measure(
             [heap |-> h, padding |-> 0, size |-> 0, visible_child_count |-> 0],
             children, 1)
      f == make_node_fill(
             [visible_children |-> [k \in 1..m.visible_child_count |-> Uninit],
              vis_i |-> 0, offset |-> 0, overflow |-> FALSE],
             m.heap, children, 1)
      result == [ref_count |-> 1,
                 symbol |-> symbol,
                 size |-> m.size,
                 child_count |-> Len(children),
                 children |-> children,
                 lookahead_char |-> 0,
                 padding |-> m.padding,
                 visible_child_count |-> m.visible_child_count,
                 visible_children |-> f.visible_children,
                 options |-> make_node_options(m.heap, children, is_hidden)]
  IN [heap |-> Append(m.heap, result), overflow |-> f.overflow]

(***************************************************************************)
(* ts_tree_release on the state [heap, live, fault].  Touching a node that *)
(* has been freed sets fault.                                              *)
(***************************************************************************)
RECURSIVE ts_tree_release(_, _), release_children(_, _, _)

release_children(st, children, i) ==
  IF i > Len(children) THEN st
  ELSE release_children(ts_tree_release(st, children[i]), children, i + 1)

\* Mutant: the node is freed and its children are left alone.
ts_tree_release_own_storage_only(st, tree) ==
  IF tree \notin st.live THEN [st EXCEPT !.fault = TRUE]
  ELSE LET h == [st.heap EXCEPT ![tree].ref_count = @ - 1]
       IN IF h[tree].ref_count = 0
          THEN [heap |-> h, live |-> st.live \ {tree}, fault |-> st.fault]
          ELSE [st EXCEPT !.heap = h]

ts_tree_release(st, tree) ==
  IF tree \notin st.live THEN [st EXCEPT !.fault = TRUE]
  ELSE LET h == [st.heap EXCEPT ![tree].ref_count = @ - 1]
       IN IF h[tree].ref_count = 0
          THEN LET s2 == release_children([st EXCEPT !.heap = h],
                                          h[tree].children, 1)
               IN [heap |-> s2.heap,
                   live |-> s2.live \ {tree},
                   fault |-> s2.fault \/ tree \notin s2.live]
          ELSE [st EXCEPT !.heap = h]

(***************************************************************************)
(* ts_tree_equals: 1 or 0.                                                 *)
(***************************************************************************)
RECURSIVE ts_tree_equals(_, _, _), equals_children(_, _, _, _)

\* Mutant: the loop returns what the first pair of children compares to.
equals_children_first_only(h, node1, node2, i) ==
  IF i > h[node1].child_count THEN 1
  ELSE ts_tree_equals(h, h[node1].children[i], h[node2].children[i])

equals_children(h, node1, node2, i) ==
  IF i > h[node1].child_count THEN 1
  ELSE IF ts_tree_equals(h, h[node1].children[i], h[node2].children[i]) = 0
       THEN 0
       ELSE equals_children(h, node1, node2, i + 1)

ts_tree_equals(h, node1, node2) ==
  IF h[node1].symbol # h[node2].symbol THEN 0
  ELSE IF h[node1].lookahead_char # h[node2].lookahead_char THEN 0
  ELSE IF h[node1].child_count # h[node2].child_count THEN 0
  ELSE IF h[node1].visible_child_count # h[node2].visible_child_count THEN 0
  ELSE equals_children(h, node1, node2, 1)

(***************************************************************************)
(* write_lookahead_to_string, tree_write_to_string, ts_tree_string.  A     *)
(* string is the sequence of its characters.                               *)
(***************************************************************************)
Chr(c) == IF c = 120 THEN "x" ELSE "?"

write_lookahead_to_string(lookahead) ==
  IF lookahead = EndOfInput
  THEN <<"<", "E", "O", "F", ">">>
  ELSE <<"'", Chr(lookahead), "'">>

RECURSIVE tree_write_to_string(_, _, _), write_children(_, _, _)

write_children(h, children, i) ==
  IF i > Len(children) THEN <<>>
  ELSE tree_write_to_string(h, children[i], FALSE)
       \o write_children(h, children, i + 1)

\* Mutant: the hidden flag is not looked at.
tree_write_to_string_all_visible(h, tree, is_root) ==
  IF tree = NULL THEN <<"(", "N", "U", "L", "L", ")">>
  ELSE
    (IF ~is_root THEN <<" ">> ELSE <<>>)
    \o (IF h[tree].symbol = ts_builtin_sym_error
        THEN <<"(", "E", "R", "R", "O", "R", " ">>
             \o write_lookahead_to_string(h[tree].lookahead_char)
        ELSE <<"(">> \o symbol_names[h[tree].symbol])
    \o write_children(h, h[tree].children, 1)
    \o <<")">>

tree_write_to_string(h, tree, is_root) ==
  IF tree = NULL THEN <<"(", "N", "U", "L", "L", ")">>
  ELSE
    LET visible == ts_tree_is_visible(h[tree]) \/ is_root
    IN (IF visible /\ ~is_root THEN <<" ">> ELSE <<>>)
       \o (IF visible
           THEN IF h[tree].symbol = ts_builtin_sym_error
                THEN <<"(", "E", "R", "R", "O", "R", " ">>
                     \o write_lookahead_to_string(h[tree].lookahead_char)
                ELSE <<"(">> \o symbol_names[h[tree].symbol]
           ELSE <<>>)
       \o write_children(h, h[tree].children, 1)
       \o (IF visible THEN <<")">> ELSE <<>>)

\* The first pass measures, the second writes into a buffer of that size: the
\* characters before the terminating NUL.
ts_tree_string(h, tree) ==
  LET size == Len(tree_write_to_string(h, tree, TRUE)) + 1
  IN SubSeq(tree_write_to_string(h, tree, TRUE), 1, size - 1)

(***************************************************************************)
(* The state after construction: nothing is allocated.                     *)
(***************************************************************************)
Init ==
  /\ heap = <<>>
  /\ live = {}
  /\ handles = <<>>
  /\ fault = FALSE
  /\ ret = NoRet

MakeLeaf(sym, size, padding, is_hidden) ==
  /\ ~fault
  /\ Len(heap) < MaxNodes
  /\ heap' = Append(heap, ts_tree_make_leaf(sym, size, padding, is_hidden))
  /\ live' = live \cup {Len(heap) + 1}
  /\ handles' = Append(handles, 1)
  /\ ret' = NoRet
  /\ UNCHANGED fault

MakeError(size, padding, lookahead_char) ==
  /\ ~fault
  /\ Len(heap) < MaxNodes
  /\ heap' = Append(heap, ts_tree_make_error(size, padding, lookahead_char))
  /\ live' = live \cup {Len(heap) + 1}
  /\ handles' = Append(handles, 1)
  /\ ret' = NoRet
  /\ UNCHANGED fault

MakeNode(symbol, children, is_hidden) ==
  /\ ~fault
  /\ Len(heap) < MaxNodes
  /\ LET r == ts_tree_make_node(heap, symbol, children, is_hidden)
     IN /\ heap' = r.heap
        /\ fault' = r.overflow
  /\ live' = live \cup {Len(heap) + 1}
  /\ handles' = Append(handles, 1)
  /\ ret' = NoRet

(***************************************************************************)
(* A caller stores one more reference to a live node.                      *)
(***************************************************************************)
Retain(tree) ==
  /\ ~fault
  /\ tree \in live
  /\ handles[tree] < MaxHandles
  /\ heap' = ts_tree_retain(heap, tree)
  /\ handles' = [handles EXCEPT ![tree] = @ + 1]
  /\ ret' = NoRet
  /\ UNCHANGED <<live, fault>>

(***************************************************************************)
(* A caller gives up one of the references it holds.                       *)
(***************************************************************************)
Release(tree) ==
  /\ ~fault
  /\ tree \in Nodes
  /\ handles[tree] > 0
  /\ LET r == ts_tree_release([heap |-> heap, live |-> live, fault |-> FALSE],
                              tree)
     IN /\ heap' = r.heap
        /\ live' = r.live
        /\ fault' = r.fault
  /\ handles' = [handles EXCEPT ![tree] = @ - 1]
  /\ ret' = NoRet

(***************************************************************************)
(* A caller compares two live nodes.                                       *)
(***************************************************************************)
Equals(node1, node2) ==
  /\ ~fault
  /\ node1 \in live
  /\ node2 \in live
  /\ ret' = [op |-> "equals", node1 |-> node1, node2 |-> node2,
             value |-> ts_tree_equals(heap, node1, node2)]
  /\ UNCHANGED <<heap, live, handles, fault>>

(***************************************************************************)
(* A caller renders a live node, or NULL.                                  *)
(***************************************************************************)
String(tree) ==
  /\ ~fault
  /\ tree \in live \cup {NULL}
  /\ ret' = [op |-> "string", tree |-> tree,
             value |-> ts_tree_string(heap, tree)]
  /\ UNCHANGED <<heap, live, handles, fault>>

(***************************************************************************)
(* Construction only: extents, flags and the visible-child array.          *)
(***************************************************************************)
Next ==
  \/ \E size \in Sizes, padding \in Paddings, is_hidden \in BOOLEAN :
       MakeLeaf(1, size, padding, is_hidden)
  \/ \E size \in Sizes, padding \in Paddings :
       MakeError(size, padding, EndOfInput)
  \/ \E children \in ChildArrays, is_hidden \in BOOLEAN :
       MakeNode(1, children, is_hidden)

Spec == Init /\ [][Next]_vars

(***************************************************************************)
(* Construction with retain and release: lifetimes.                        *)
(***************************************************************************)
NextLife ==
  \/ MakeLeaf(1, 1, 0, FALSE)
  \/ MakeError(1, 0, EndOfInput)
  \/ \E children \in ChildArrays, is_hidden \in BOOLEAN :
       MakeNode(1, children, is_hidden)
  \/ \E tree \in Nodes : Retain(tree)
  \/ \E tree \in Nodes : Release(tree)

SpecLife == Init /\ [][NextLife]_vars

(***************************************************************************)
(* Construction and comparison.                                            *)
(***************************************************************************)
NextEq ==
  \/ \E sym \in Symbols : MakeLeaf(sym, 1, 0, FALSE)
  \/ \E lookahead_char \in Lookaheads : MakeError(1, 0, lookahead_char)
  \/ \E symbol \in Symbols, children \in ChildArrays :
       MakeNode(symbol, children, FALSE)
  \/ \E node1 \in Nodes, node2 \in Nodes : Equals(node1, node2)

SpecEq == Init /\ [][NextEq]_vars

(***************************************************************************)
(* Construction and rendering.                                             *)
(***************************************************************************)
NextStr ==
  \/ \E sym \in Symbols, is_hidden \in BOOLEAN : MakeLeaf(sym, 1, 0, is_hidden)
  \/ \E lookahead_char \in Lookaheads : MakeError(1, 0, lookahead_char)
  \/ \E children \in ChildArrays, is_hidden \in BOOLEAN :
       MakeNode(1, children, is_hidden)
  \/ \E tree \in Nodes \cup {NULL} : String(tree)

SpecStr == Init /\ [][NextStr]_vars

(***************************************************************************)
(* Vocabulary of the properties.                                           *)
(***************************************************************************)
Range(s) == {s[i] : i \in DOMAIN s}

\* How many slots of the array `children` hold `tree`.
Mult(children, tree) == Cardinality({i \in DOMAIN children : children[i] = tree})

\* A node and all its transitive descendants.
RECURSIVE Subtree(_)
Subtree(t) == {t} \cup UNION {Subtree(c) : c \in Range(heap[t].children)}

\* How many child slots of the nodes of the tree under `root` hold `tree`.
SlotsWithin(root, tree) ==
  Cardinality({pi \in Subtree(root) \X (1..MaxChildren) :
                 /\ pi[2] \in DOMAIN heap[pi[1]].children
                 /\ heap[pi[1]].children[pi[2]] = tree})

\* The one reference to the root is the only reference from outside the tree:
\* every descendant is owned by the child slots of the tree and by nobody else.
FullyUnshared(root) ==
  /\ root \in live
  /\ heap[root].ref_count = 1
  /\ \A d \in Subtree(root) \ {root} : heap[d].ref_count = SlotsWithin(root, d)

Depth2(t) == \E c \in Range(heap[t].children) : heap[c].child_count > 0

(***************************************************************************)
(* C1: a ts_tree_release of the fully-unshared root of a tree frees the    *)
(* root and every transitive descendant (no node stays allocated), frees   *)
(* nothing else, and touches no node that was already freed.               *)
(***************************************************************************)
C1_ReleaseFreesWholeTree ==
  [][\A t \in Nodes :
       (handles'[t] < handles[t] /\ FullyUnshared(t)) =>
         /\ live' \cap Subtree(t) = {}
         /\ live' = live \ Subtree(t)
         /\ ~fault']_vars

C1_Witness ==
  \E t \in Nodes :
    /\ Depth2(t)
    /\ \E c \in Nodes : Mult(heap[t].children, c) = 2
    /\ Subtree(t) \cap live = {}
    /\ handles[t] = 0
    /\ ~fault

(***************************************************************************)
(* C2, as stated: ts_tree_make_node leaves every node of its child array   *)
(* with the ref_count it had before the call plus 1.                       *)
(***************************************************************************)
C2_EveryChildPlusOne ==
  [][Len(heap') = Len(heap) + 1 =>
       \A c \in Range(heap'[Len(heap')].children) :
         heap'[c].ref_count = heap[c].ref_count + 1]_vars

(***************************************************************************)
(* C2, amended: ts_tree_make_node leaves every node of its child array     *)
(* with the ref_count it had before the call plus the number of slots of   *)
(* the array the node occupies, and every other node's count as it was.    *)
(***************************************************************************)
C2_EveryChildPlusSlots ==
  [][Len(heap') = Len(heap) + 1 =>
       \A c \in Nodes :
         heap'[c].ref_count =
           heap[c].ref_count + Mult(heap'[Len(heap')].children, c)]_vars

C2_Witness ==
  /\ Len(heap) > 1
  /\ LET children == heap[Len(heap)].children
     IN /\ Len(children) = 2
        /\ children[1] = children[2]
        /\ heap[children[1]].ref_count = 3
        /\ handles[children[1]] = 1

(***************************************************************************)
(* C10: every node referenced from the children or from the                *)
(* visible_children of a live node is live, whatever the callers have      *)
(* built, retained and released in between; and no release has touched a   *)
(* freed node.                                                             *)
(***************************************************************************)
C10_NoDanglingReference ==
  /\ ~fault
  /\ \A n \in live :
       /\ \A c \in Range(heap[n].children) : c \in live
       /\ \A k \in DOMAIN heap[n].visible_children :
            heap[n].visible_children[k].tree \in live

\* A live node sees, through a hidden child only, a node that its creator has
\* released and that two parents share.
C10_Witness ==
  \E p \in live :
    \E k \in DOMAIN heap[p].visible_children :
    /\ p \in live
    /\ LET g == heap[p].visible_children[k].tree
       IN /\ g \notin Range(heap[p].children)
          /\ handles[g] = 0
          /\ Cardinality({q \in live : g \in Range(heap[q].children)}) >= 2

(***************************************************************************)
(* Vocabulary of the construction properties.                              *)
(***************************************************************************)
Child(n, i) == heap[heap[n].children[i]]

\* The total extents of the children i, i+1, ... of n.
RECURSIVE TailExtent(_, _)
TailExtent(n, i) ==
  IF i > Len(heap[n].children) THEN 0
  ELSE ts_tree_total_size(Child(n, i)) + TailExtent(n, i + 1)

\* Where the content of child i starts, counted from the start of n's content:
\* the sizes of the children before it and the paddings of the children after
\* the first, up to and including its own.
RECURSIVE StartOffset(_, _)
StartOffset(n, i) ==
  IF i = 1 THEN 0
  ELSE StartOffset(n, i - 1) + Child(n, i - 1).size + Child(n, i).padding

\* What child i contributes to the flattening of n.
Contribution(n, i) ==
  IF ts_tree_is_visible(Child(n, i))
  THEN <<[tree |-> heap[n].children[i], offset |-> StartOffset(n, i)]>>
  ELSE [k \in 1..Len(Child(n, i).visible_children) |->
          [tree |-> Child(n, i).visible_children[k].tree,
           offset |-> StartOffset(n, i) + Child(n, i).visible_children[k].offset]]

RECURSIVE Flattening(_, _)
Flattening(n, i) ==
  IF i = 0 THEN <<>> ELSE Flattening(n, i - 1) \o Contribution(n, i)

RECURSIVE VisibleCount(_, _)
VisibleCount(n, i) ==
  IF i = 0 THEN 0
  ELSE VisibleCount(n, i - 1)
       + (IF ts_tree_is_visible(Child(n, i)) THEN 1
          ELSE Child(n, i).visible_child_count)

Entry(n, k) == heap[n].visible_children[k]

(***************************************************************************)
(* C3: a node with children c0..cn-1 has the padding of c0 and the size    *)
(* c0.size + the sum over i >= 1 of (ci.padding + ci.size), hidden         *)
(* children counted like visible ones.                                     *)
(***************************************************************************)
C3_ExtentAdditivity ==
  \A n \in Nodes :
    heap[n].child_count >= 1 =>
      /\ heap[n].padding = Child(n, 1).padding
      /\ heap[n].size = Child(n, 1).size + TailExtent(n, 2)

C3_Witness ==
  \E n \in Nodes :
    /\ heap[n].child_count = 2
    /\ Child(n, 1).padding = 1
    /\ ~ts_tree_is_visible(Child(n, 2))
    /\ Child(n, 2).padding = 1
    /\ Child(n, 2).size = 2
    /\ heap[n].size = Child(n, 1).size + 3

(***************************************************************************)
(* C4: the visible_children array of a node is the in-order flattening of  *)
(* its children (a visible child itself at the start offset of its         *)
(* content, a hidden child's entries shifted by that offset), its length   *)
(* is visible_child_count, which is the sum over the children of 1 or the  *)
(* child's visible_child_count, and every slot has been stored.            *)
(***************************************************************************)
C4_VisibleChildrenAreFlattening ==
  /\ ~fault
  /\ \A n \in Nodes :
       /\ heap[n].visible_children = Flattening(n, heap[n].child_count)
       /\ Len(heap[n].visible_children) = heap[n].visible_child_count
       /\ heap[n].visible_child_count = VisibleCount(n, heap[n].child_count)
       /\ \A k \in DOMAIN heap[n].visible_children : Entry(n, k) # Uninit

C4_Witness ==
  \E n \in Nodes :
    /\ heap[n].child_count = 2
    /\ ts_tree_is_visible(Child(n, 1))
    /\ ~ts_tree_is_visible(Child(n, 2))
    /\ Child(n, 2).visible_child_count = 2
    /\ heap[n].visible_child_count = 3
    /\ Entry(n, 2).offset > 0
    /\ Entry(n, 3).offset > Entry(n, 2).offset

(***************************************************************************)
(* C5, as stated: the offsets of consecutive visible_children entries are  *)
(* strictly increasing, and the last entry's offset plus its total extent  *)
(* (padding + size) is at most node.size + node.padding.                   *)
(***************************************************************************)
C5_StrictOffsetsAndExtent ==
  \A n \in Nodes :
    LET count == heap[n].visible_child_count
    IN /\ \A k \in 1..(count - 1) : Entry(n, k).offset < Entry(n, k + 1).offset
       /\ count > 0 =>
            Entry(n, count).offset
              + ts_tree_total_size(heap[Entry(n, count).tree])
            <= heap[n].size + heap[n].padding

(***************************************************************************)
(* C5, amended: each entry's offset is at least the previous entry's       *)
(* offset plus the previous entry's size plus its own padding (so the      *)
(* offsets never decrease, and increase strictly unless that size and      *)
(* that padding are both zero), and the last entry's offset plus its size  *)
(* is at most node.size.                                                   *)
(***************************************************************************)
C5_OffsetsAdvanceBySize ==
  \A n \in Nodes :
    LET count == heap[n].visible_child_count
    IN /\ \A k \in 1..(count - 1) :
            Entry(n, k).offset + heap[Entry(n, k).tree].size
              + heap[Entry(n, k + 1).tree].padding
            <= Entry(n, k + 1).offset
       /\ count > 0 =>
            Entry(n, count).offset + heap[Entry(n, count).tree].size
            <= heap[n].size

C5_Witness ==
  \E n \in Nodes :
    /\ heap[n].visible_child_count = 3
    /\ Entry(n, 1).offset = Entry(n, 2).offset
    /\ Entry(n, 2).offset < Entry(n, 3).offset
    /\ heap[Entry(n, 3).tree].padding > heap[n].padding
    /\ Entry(n, 3).offset + heap[Entry(n, 3).tree].size = heap[n].size

(***************************************************************************)
(* C6, as stated: a node over exactly one visible child is hidden and a    *)
(* wrapper, and its single visible_children entry is that child at an      *)
(* offset equal to the child's padding.                                    *)
(***************************************************************************)
C6_WrapperEntryAtChildPadding ==
  \A n \in Nodes :
    (heap[n].child_count = 1 /\ ts_tree_is_visible(Child(n, 1))) =>
      /\ ~ts_tree_is_visible(heap[n])
      /\ ts_tree_is_wrapper(heap[n])
      /\ heap[n].visible_children =
           <<[tree |-> heap[n].children[1], offset |-> Child(n, 1).padding]>>

(***************************************************************************)
(* C6, amended: a node over exactly one visible child is hidden and a      *)
(* wrapper, whatever is_hidden was, and its single visible_children entry  *)
(* is that child at offset 0.                                              *)
(***************************************************************************)
C6_WrapperEntryAtZero ==
  \A n \in Nodes :
    (heap[n].child_count = 1 /\ ts_tree_is_visible(Child(n, 1))) =>
      /\ ~ts_tree_is_visible(heap[n])
      /\ ts_tree_is_wrapper(heap[n])
      /\ heap[n].visible_children =
           <<[tree |-> heap[n].children[1], offset |-> 0]>>

C6_Witness ==
  \E n \in Nodes :
    /\ heap[n].child_count = 1
    /\ ts_tree_is_visible(Child(n, 1))
    /\ Child(n, 1).padding = 1
    /\ heap[n].padding = 1
    /\ heap[n].options = {TSTreeOptionsHidden, TSTreeOptionsWrapper}

(***************************************************************************)
(* The scenario of C7: visible leaves A(size 1, padding 0) and             *)
(* B(size 2, padding 1), W a node over [B], R a node over [A, W].          *)
(***************************************************************************)
IsLeaf(n, size, padding) ==
  /\ heap[n].child_count = 0
  /\ ts_tree_is_visible(heap[n])
  /\ heap[n].size = size
  /\ heap[n].padding = padding

Scenario(A, B, W, R) ==
  /\ IsLeaf(A, 1, 0)
  /\ IsLeaf(B, 2, 1)
  /\ heap[W].children = <<B>>
  /\ heap[R].children = <<A, W>>

(***************************************************************************)
(* C7, as stated: in the scenario R.padding = 0, R.size = 4,               *)
(* R.visible_child_count = 2 and R.visible_children = [(A,0), (B,1)].      *)
(***************************************************************************)
C7_ScenarioWithBAtOne ==
  \A A \in Nodes, B \in Nodes, W \in Nodes, R \in Nodes :
    Scenario(A, B, W, R) =>
      /\ heap[R].padding = 0
      /\ heap[R].size = 4
      /\ heap[R].visible_child_count = 2
      /\ heap[R].visible_children =
           <<[tree |-> A, offset |-> 0], [tree |-> B, offset |-> 1]>>

(***************************************************************************)
(* C7, amended: in the scenario R.padding = 0, R.size = 4,                 *)
(* R.visible_child_count = 2 and R.visible_children = [(A,0), (B,2)]: B's  *)
(* content starts after A's one byte and B's one byte of padding.          *)
(***************************************************************************)
C7_ScenarioWithBAtTwo ==
  \A A \in Nodes, B \in Nodes, W \in Nodes, R \in Nodes :
    Scenario(A, B, W, R) =>
      /\ ~ts_tree_is_visible(heap[W])
      /\ ts_tree_is_wrapper(heap[W])
      /\ heap[R].padding = 0
      /\ heap[R].size = 4
      /\ heap[R].visible_child_count = 2
      /\ heap[R].visible_children =
           <<[tree |-> A, offset |-> 0], [tree |-> B, offset |-> 2]>>

C7_Witness ==
  \E A \in Nodes, B \in Nodes, W \in Nodes, R \in Nodes :
    /\ Scenario(A, B, W, R)
    /\ heap[R].ref_count = 1
    /\ heap[W].ref_count = 2

(***************************************************************************)
(* Vocabulary of the comparison property.                                  *)
(***************************************************************************)
\* The ways down a tree: sequences of child indices.
Paths == UNION {[1..d -> 1..MaxChildren] : d \in 0..(MaxNodes - 1)}

\* The node a path leads to from n, or NULL when the path leaves the tree.
RECURSIVE At(_, _)
At(n, path) ==
  IF path = <<>> THEN n
  ELSE IF Head(path) \in DOMAIN heap[n].children
       THEN At(heap[n].children[Head(path)], Tail(path))
       ELSE NULL

NodeDiffers(x, y) ==
  \/ heap[x].symbol # heap[y].symbol
  \/ heap[x].lookahead_char # heap[y].lookahead_char
  \/ heap[x].child_count # heap[y].child_count

\* Some pair of corresponding nodes of the two trees differs.
TreesDiffer(a, b) ==
  \E path \in Paths :
    /\ At(a, path) # NULL
    /\ At(b, path) # NULL
    /\ NodeDiffers(At(a, path), At(b, path))

(***************************************************************************)
(* C8: ts_tree_equals(a, a) is 1 for every node a, and                     *)
(* ts_tree_equals(a, b) is 0 whenever the symbols differ, the lookahead    *)
(* characters differ, or some pair of corresponding descendants differs    *)
(* in its symbol, lookahead character or number of children.               *)
(***************************************************************************)
C8_EqualsReflexiveAndSensitive ==
  ret.op = "equals" =>
    /\ ret.node1 = ret.node2 => ret.value = 1
    /\ heap[ret.node1].symbol # heap[ret.node2].symbol => ret.value = 0
    /\ heap[ret.node1].lookahead_char # heap[ret.node2].lookahead_char =>
         ret.value = 0
    /\ TreesDiffer(ret.node1, ret.node2) => ret.value = 0

\* Two trees of the same shape whose roots and first children agree and whose
\* second children differ have been compared.
C8_Witness ==
  /\ ret.op = "equals"
  /\ ret.value = 0
  /\ ~NodeDiffers(ret.node1, ret.node2)
  /\ heap[ret.node1].child_count = 2
  /\ ~TreesDiffer(At(ret.node1, <<1>>), At(ret.node2, <<1>>))
  /\ heap[At(ret.node1, <<2>>)].child_count = 0
  /\ heap[At(ret.node2, <<2>>)].child_count = 0
  /\ NodeDiffers(At(ret.node1, <<2>>), At(ret.node2, <<2>>))

(***************************************************************************)
(* Vocabulary of the rendering property.                                   *)
(***************************************************************************)
\* q is p with the visible child in slot i replaced by a hidden node whose
\* only child is that child.
Replaced(p, q, i) ==
  /\ heap[p].symbol = heap[q].symbol
  /\ heap[p].lookahead_char = heap[q].lookahead_char
  /\ heap[p].child_count = heap[q].child_count
  /\ i \in DOMAIN heap[p].children
  /\ \A j \in DOMAIN heap[p].children :
       j # i => heap[p].children[j] = heap[q].children[j]
  /\ ts_tree_is_visible(Child(p, i))
  /\ ~ts_tree_is_visible(Child(q, i))
  /\ Child(q, i).children = <<heap[p].children[i]>>

OwnForm(n) ==
  IF heap[n].symbol = ts_builtin_sym_error
  THEN <<"(", "E", "R", "R", "O", "R", " ">>
  ELSE <<"(">> \o symbol_names[heap[n].symbol]

(***************************************************************************)
(* C9: a hidden node that is not the root writes what its children write   *)
(* and nothing of its own; the string of a node in which a visible child   *)
(* has been replaced by a hidden node over that child alone is the string  *)
(* of the node without the replacement; and the root is written in its     *)
(* own parenthesised form whether it is hidden or not.                     *)
(***************************************************************************)
C9_HiddenNodesAreTransparent ==
  /\ \A n \in Nodes :
       ~ts_tree_is_visible(heap[n]) =>
         tree_write_to_string(heap, n, FALSE)
           = write_children(heap, heap[n].children, 1)
  /\ (ret.op = "string" /\ ret.tree # NULL) =>
       /\ \A p \in Nodes, i \in 1..MaxChildren :
            Replaced(p, ret.tree, i) => ret.value = ts_tree_string(heap, p)
       /\ SubSeq(ret.value, 1, Len(OwnForm(ret.tree))) = OwnForm(ret.tree)
       /\ ret.value[Len(ret.value)] = ")"

\* A hidden root with two children, the first of them a hidden wrapper, has
\* been rendered, and the same node with the wrapped child in its place exists.
C9_Witness ==
  /\ ret.op = "string"
  /\ ret.tree # NULL
  /\ ~ts_tree_is_visible(heap[ret.tree])
  /\ heap[ret.tree].child_count = 2
  /\ \E p \in Nodes : Replaced(p, ret.tree, 1)
  /\ ret.value = <<"(", "a", " ", "(", "b", ")", " ", "(", "b", ")", ")">>

=============================================================================
